---------------------------- MODULE Spec2Model ----------------------------
(***************************************************************************)
(* A model of data_cleaning.py (Boston crimes data cleaning).              *)
(*                                                                         *)
(* A table (a pandas DataFrame) is a record                                *)
(*     [columns |-> sequence of column names,                              *)
(*      rows    |-> sequence of rows, a row being a sequence of cells      *)
(*                  aligned with columns].                                 *)
(* Text (column names and string cells) is a sequence of characters, each  *)
(* a string, so that str.upper, str.replace, str.strip, str.split, float()  *)
(* and the timestamp parser are computed character by character.           *)
(* A cell is one of                                                        *)
(*     [k |-> "na"]                      NaN / None / NaT                  *)
(*     [k |-> "num", m |-> m, e |-> e]   the number m / 10^e, normalised   *)
(*     [k |-> "str", s |-> text]         a string                          *)
(*     [k |-> "ts", y, mo, d]            a Timestamp at midnight           *)
(* Tables have at least one row: DataFrame.apply on an empty frame takes a *)
(* different path in pandas that is not modelled.  The column names of a   *)
(* table stay distinct when they are upper-cased and renamed, the columns  *)
(* have the types read_csv gives them (a column is of object dtype exactly *)
(* when it holds a string), and OFFENSE_CODE and CODE are never missing.   *)
(***************************************************************************)
EXTENDS Integers, Sequences, FiniteSets, TLC

VARIABLES
    pc,             \* position of the call / of main()
    crimes,         \* the incident table
    offense_codes,  \* the code table
    old,            \* the two tables as they were when the last call began
    err,            \* the exception that ended the call, "none" if none
    out,            \* what the call printed (the reports that carry data)
    files           \* the two output files of main()

vars == <<pc, crimes, offense_codes, old, err, out, files>>

(***************************************************************************)
(* Bounds of the model.                                                    *)
(***************************************************************************)
MaxRows == 2

\* rows of the tables given to fill_missing_location_data
MaxPlaceRows == 3

(***************************************************************************)
(* Column names.                                                           *)
(***************************************************************************)
LAT ==
    <<"L", "A", "T">>
LONG ==
    <<"L", "O", "N", "G">>
LATITUDE ==
    <<"L", "A", "T", "I", "T", "U", "D", "E">>
LONGITUDE ==
    <<"L", "O", "N", "G", "I", "T", "U", "D", "E">>
LOCATION ==
    <<"L", "O", "C", "A", "T", "I", "O", "N">>
OCCURRED_ON_DATE ==
    <<"O", "C", "C", "U", "R", "R", "E", "D", "_", "O", "N", "_", "D", "A", "T", "E">>
YEAR ==
    <<"Y", "E", "A", "R">>
MONTH ==
    <<"M", "O", "N", "T", "H">>
DAY_OF_WEEK ==
    <<"D", "A", "Y", "_", "O", "F", "_", "W", "E", "E", "K">>
TIME ==
    <<"T", "I", "M", "E">>
OFFENSE_CODE ==
    <<"O", "F", "F", "E", "N", "S", "E", "_", "C", "O", "D", "E">>
OFFENSE_CODE_GROUP ==
    <<"O", "F", "F", "E", "N", "S", "E", "_", "C", "O", "D", "E", "_", "G", "R", "O", "U", "P">>
OFFENSE_DESCRIPTION ==
    <<"O", "F", "F", "E", "N", "S", "E", "_", "D", "E", "S", "C", "R", "I", "P", "T", "I", "O", "N">>
DISTRICT ==
    <<"D", "I", "S", "T", "R", "I", "C", "T">>
STREET ==
    <<"S", "T", "R", "E", "E", "T">>
CODE ==
    <<"C", "O", "D", "E">>
NAME ==
    <<"N", "A", "M", "E">>

(***************************************************************************)
(* Cells.                                                                  *)
(***************************************************************************)
NA == [k |-> "na"]

Num(m, e) == [k |-> "num", m |-> m, e |-> e]

IntCell(n) == Num(n, 0)

Str(s) == [k |-> "str", s |-> s]

Ts(y, mo, d) == [k |-> "ts", y |-> y, mo |-> mo, d |-> d]

\* pd.isna / pd.notna on a scalar
isna(c) == c.k = "na"

notna(c) == c.k # "na"

\* Python's == on two scalars: NaN equals nothing, not even NaN
PyEq(a, b) == notna(a) /\ notna(b) /\ a = b

Range(s) == {s[i] : i \in DOMAIN s}

(***************************************************************************)
(* Text: str.upper, str.replace('"', ''), str.strip, str.split.            *)
(***************************************************************************)
LowerAZ ==
    <<"a", "b", "c", "d", "e", "f", "g", "h", "i", "j", "k", "l", "m",
      "n", "o", "p", "q", "r", "s", "t", "u", "v", "w", "x", "y", "z">>

UpperAZ ==
    <<"A", "B", "C", "D", "E", "F", "G", "H", "I", "J", "K", "L", "M",
      "N", "O", "P", "Q", "R", "S", "T", "U", "V", "W", "X", "Y", "Z">>

\* the upper case of one character, as a text.  A character outside ASCII
\* is written as its code point: the sharp s (U+00DF) becomes "SS", the y
\* with diaeresis (U+00FF) becomes U+0178, which Latin-1 lacks
UpperChar(c) ==
    IF \E i \in DOMAIN LowerAZ : LowerAZ[i] = c
    THEN <<UpperAZ[CHOOSE i \in DOMAIN LowerAZ : LowerAZ[i] = c]>>
    ELSE IF c = "U+00DF" THEN <<"S", "S">>
         ELSE IF c = "U+00FF" THEN <<"U+0178">>
              ELSE <<c>>

RECURSIVE upper(_)
upper(s) ==
    IF s = <<>> THEN <<>> ELSE UpperChar(Head(s)) \o upper(Tail(s))

IsQuote(c) == c = "\""

NotQuote(c) == ~IsQuote(c)

\* str.replace('"', '')
replace_quotes(s) == SelectSeq(s, NotQuote)

RECURSIVE lstrip(_, _)
lstrip(s, chars) ==
    IF s # <<>> /\ Head(s) \in chars THEN lstrip(Tail(s), chars) ELSE s

RECURSIVE rstrip(_, _)
rstrip(s, chars) ==
    IF s # <<>> /\ s[Len(s)] \in chars
    THEN rstrip(SubSeq(s, 1, Len(s) - 1), chars)
    ELSE s

\* str.strip(chars)
strip(s, chars) == rstrip(lstrip(s, chars), chars)

StartsWith(s, sep) ==
    Len(s) >= Len(sep) /\ SubSeq(s, 1, Len(sep)) = sep

\* str.split(sep), sep non-empty: the pieces between the occurrences of sep
RECURSIVE SplitFrom(_, _, _)
SplitFrom(s, sep, acc) ==
    IF s = <<>> THEN <<acc>>
    ELSE IF StartsWith(s, sep)
         THEN <<acc>> \o SplitFrom(SubSeq(s, Len(sep) + 1, Len(s)), sep, <<>>)
         ELSE SplitFrom(Tail(s), sep, Append(acc, Head(s)))

split(s, sep) == SplitFrom(s, sep, <<>>)

(***************************************************************************)
(* float(text): sign, digits, an optional point and digits.  The value is  *)
(* the decimal m / 10^e with no trailing zero in the fraction, so that two *)
(* texts give equal values exactly when float() gives equal floats (for    *)
(* the short numerals of the model).  Text outside this grammar raises     *)
(* ValueError.                                                             *)
(***************************************************************************)
Digits == <<"0", "1", "2", "3", "4", "5", "6", "7", "8", "9">>

IsDigit(c) == \E i \in DOMAIN Digits : Digits[i] = c

DigitVal(c) == (CHOOSE i \in DOMAIN Digits : Digits[i] = c) - 1

AllDigits(s) == \A i \in DOMAIN s : IsDigit(s[i])

RECURSIVE DigitsToInt(_)
DigitsToInt(s) ==
    IF s = <<>> THEN 0
    ELSE DigitsToInt(SubSeq(s, 1, Len(s) - 1)) * 10 + DigitVal(s[Len(s)])

RECURSIVE Pow10(_)
Pow10(n) == IF n = 0 THEN 1 ELSE 10 * Pow10(n - 1)

HasPoint(s) == \E i \in DOMAIN s : s[i] = "."

PointAt(s) == CHOOSE i \in DOMAIN s : s[i] = "." /\ \A j \in 1..(i - 1) : s[j] # "."

IntPart(s) == IF HasPoint(s) THEN SubSeq(s, 1, PointAt(s) - 1) ELSE s

FracPart(s) == IF HasPoint(s) THEN SubSeq(s, PointAt(s) + 1, Len(s)) ELSE <<>>

Unsigned(s) == IF s # <<>> /\ Head(s) \in {"-", "+"} THEN Tail(s) ELSE s

IsFloatText(s) ==
    LET u == Unsigned(s)
    IN  /\ AllDigits(IntPart(u))
        /\ AllDigits(FracPart(u))
        /\ Len(IntPart(u)) + Len(FracPart(u)) >= 1

float(s) ==
    LET u    == Unsigned(s)
        frac == rstrip(FracPart(u), {"0"})
        mag  == DigitsToInt(IntPart(u)) * Pow10(Len(frac)) + DigitsToInt(frac)
        sign == IF s # <<>> /\ Head(s) = "-" THEN -1 ELSE 1
    IN  Num(sign * mag, Len(frac))

(***************************************************************************)
(* Timestamps: pd.to_datetime of a text "YYYY-MM-DD"; Timestamp.day_name.  *)
(***************************************************************************)
IsLeap(y) == (y % 4 = 0 /\ y % 100 # 0) \/ y % 400 = 0

DaysInMonth(y, mo) ==
    IF mo = 2 THEN (IF IsLeap(y) THEN 29 ELSE 28)
    ELSE IF mo \in {4, 6, 9, 11} THEN 30 ELSE 31

IsDateText(s) ==
    LET p == split(s, <<"-">>)
    IN  /\ Len(p) = 3
        /\ Len(p[1]) = 4 /\ Len(p[2]) = 2 /\ Len(p[3]) = 2
        /\ AllDigits(p[1]) /\ AllDigits(p[2]) /\ AllDigits(p[3])
        /\ DigitsToInt(p[1]) >= 1
        /\ DigitsToInt(p[2]) \in 1..12
        /\ DigitsToInt(p[3]) \in 1..DaysInMonth(DigitsToInt(p[1]), DigitsToInt(p[2]))

ParseDate(s) ==
    LET p == split(s, <<"-">>)
    IN  Ts(DigitsToInt(p[1]), DigitsToInt(p[2]), DigitsToInt(p[3]))

\* variant: a value that is already a Timestamp is not recognised
to_datetime_text_only(c) ==
    IF c.k = "str" /\ IsDateText(c.s) THEN ParseDate(c.s) ELSE NA

\* pd.to_datetime(..., errors='coerce') on one value
to_datetime(c) ==
    IF c.k = "ts" THEN c
    ELSE IF c.k = "str" /\ IsDateText(c.s) THEN ParseDate(c.s)
         ELSE NA

DayNames ==
    << <<"S", "u", "n", "d", "a", "y">>,
       <<"M", "o", "n", "d", "a", "y">>,
       <<"T", "u", "e", "s", "d", "a", "y">>,
       <<"W", "e", "d", "n", "e", "s", "d", "a", "y">>,
       <<"T", "h", "u", "r", "s", "d", "a", "y">>,
       <<"F", "r", "i", "d", "a", "y">>,
       <<"S", "a", "t", "u", "r", "d", "a", "y">> >>

MonthOffset == <<0, 3, 2, 5, 0, 3, 5, 1, 4, 6, 2, 4>>

\* day of the week of a Gregorian date, 0 = Sunday
Weekday(y, mo, d) ==
    LET yy == IF mo < 3 THEN y - 1 ELSE y
    IN  (yy + (yy \div 4) - (yy \div 100) + (yy \div 400) + MonthOffset[mo] + d) % 7

\* Timestamp.year / .month / .day_name(); NaT gives NaN for each
ts_year(c) == IF c.k = "ts" THEN IntCell(c.y) ELSE NA

ts_month(c) == IF c.k = "ts" THEN IntCell(c.mo) ELSE NA

day_name(c) == IF c.k = "ts" THEN Str(DayNames[Weekday(c.y, c.mo, c.d) + 1]) ELSE NA

\* Timestamp.strftime('%H:%M') of a timestamp at midnight
strftime_hm(c) == IF c.k = "ts" THEN Str(<<"0", "0", ":", "0", "0">>) ELSE NA

(***************************************************************************)
(* Tables.                                                                 *)
(***************************************************************************)
NoOut == [msg |-> "none"]

HasCol(t, c) == \E p \in DOMAIN t.columns : t.columns[p] = c

Pos(t, c) == CHOOSE p \in DOMAIN t.columns : t.columns[p] = c

\* the cell of column c in the i-th row
Cell(t, i, c) == t.rows[i][Pos(t, c)]

\* crimes[c] = vals : replaces the column, or appends it when it is new
SetCol(t, c, vals) ==
    IF HasCol(t, c)
    THEN [t EXCEPT !.rows = [i \in DOMAIN t.rows |->
                                [t.rows[i] EXCEPT ![Pos(t, c)] = vals[i]]]]
    ELSE [columns |-> Append(t.columns, c),
          rows    |-> [i \in DOMAIN t.rows |-> Append(t.rows[i], vals[i])]]

RemoveAt(s, p) == SubSeq(s, 1, p - 1) \o SubSeq(s, p + 1, Len(s))

\* variant: drop without inplace=True, which leaves the table as it was
DropCol_not_inplace(t, c) == t

\* crimes.drop(columns=[c], inplace=True)
DropCol(t, c) ==
    [columns |-> RemoveAt(t.columns, Pos(t, c)),
     rows    |-> [i \in DOMAIN t.rows |-> RemoveAt(t.rows[i], Pos(t, c))]]

\* the row handed to the function of DataFrame.apply(axis=1): label -> cell
Row(t, i) == [c \in Range(t.columns) |-> Cell(t, i, c)]

\* boolean indexing: the positions where the mask is true, in row order
RECURSIVE SelectIdx(_, _)
SelectIdx(mask, i) ==
    IF i > Len(mask) THEN <<>>
    ELSE (IF mask[i] THEN <<i>> ELSE <<>>) \o SelectIdx(mask, i + 1)

(***************************************************************************)
(* standardize_columns                                                     *)
(***************************************************************************)
\* DataFrame.columns.str.upper()
UpperColumns(t) ==
    [t EXCEPT !.columns = [p \in DOMAIN t.columns |-> upper(t.columns[p])]]

\* DataFrame.rename(columns={from: to})
RenameCol(t, from, to) ==
    [t EXCEPT !.columns = [p \in DOMAIN t.columns |->
                              IF t.columns[p] = from THEN to ELSE t.columns[p]]]

\* astype(float) fails on a string that float() rejects
FloatRaises(c) == c.k = "str" /\ ~IsFloatText(c.s)

\* astype(float) on one value
astype_float(c) == IF c.k = "str" THEN float(c.s) ELSE c

\* Series.str exists only for a column of object dtype, which a column read
\* from a file has exactly when some cell is a string
HasStrAccessor(t, c) == \E i \in DOMAIN t.rows : Cell(t, i, c).k = "str"

\* Series.str.upper() on one value: a non-string gives NaN
str_upper(c) == IF c.k = "str" THEN Str(upper(c.s)) ELSE NA

RECURSIVE UpperTextCols(_, _)
UpperTextCols(t, cols) ==
    IF cols = <<>> THEN [err |-> "none", crimes |-> t]
    ELSE IF ~HasCol(t, Head(cols)) THEN UpperTextCols(t, Tail(cols))
    ELSE IF ~HasStrAccessor(t, Head(cols))
         THEN [err |-> "AttributeError", crimes |-> t]
         ELSE UpperTextCols(
                 SetCol(t, Head(cols),
                        [i \in DOMAIN t.rows |-> str_upper(Cell(t, i, Head(cols)))]),
                 Tail(cols))

text_cols == <<OFFENSE_DESCRIPTION, DISTRICT, STREET>>

\* The result names the exception ("none" if the call returned) and the two
\* tables as the call left them: the tables are changed in place, so a call
\* that raises leaves the changes made before the failing line.
standardize_columns(cr, oc) ==
    LET c7  == UpperColumns(cr)
        oc8 == UpperColumns(oc)
        c9  == RenameCol(RenameCol(c7, LAT, LATITUDE), LONG, LONGITUDE)
        c10 == SetCol(SetCol(c9,
                   LATITUDE,  [i \in DOMAIN c9.rows |-> astype_float(Cell(c9, i, LATITUDE))]),
                   LONGITUDE, [i \in DOMAIN c9.rows |-> astype_float(Cell(c9, i, LONGITUDE))])
        c11 == SetCol(c10, OCCURRED_ON_DATE,
                   [i \in DOMAIN c10.rows |-> to_datetime(Cell(c10, i, OCCURRED_ON_DATE))])
        r15 == UpperTextCols(c11, text_cols)
    IN  IF ~HasCol(c9, LATITUDE) \/ ~HasCol(c9, LONGITUDE)
        THEN [err |-> "KeyError", crimes |-> c9, offense_codes |-> oc8]
        ELSE IF \E i \in DOMAIN c9.rows :
                    \/ FloatRaises(Cell(c9, i, LATITUDE))
                    \/ FloatRaises(Cell(c9, i, LONGITUDE))
        THEN [err |-> "ValueError", crimes |-> c9, offense_codes |-> oc8]
        ELSE IF ~HasCol(c10, OCCURRED_ON_DATE)
        THEN [err |-> "KeyError", crimes |-> c10, offense_codes |-> oc8]
        ELSE [err |-> r15.err, crimes |-> r15.crimes, offense_codes |-> oc8]

(***************************************************************************)
(* drop_location_column_if_consistent                                      *)
(***************************************************************************)
ZeroLocation ==
    <<"(", "0", ".", "0", "0", "0", "0", "0", "0", "0", "0", ",", " ",
      "0", ".", "0", "0", "0", "0", "0", "0", "0", "0", ")">>

\* row['LOCATION'].strip("()").split(", ")
LocationParts(loc) == split(strip(loc.s, {"(", ")"}), <<",", " ">>)

\* the first test of is_consistent: NaN or zero on both sides
NoLocation(row) ==
    /\ \/ isna(row[LATITUDE])
       \/ isna(row[LONGITUDE])
       \/ (PyEq(row[LATITUDE], IntCell(0)) /\ PyEq(row[LONGITUDE], IntCell(0)))
    /\ \/ isna(row[LOCATION])
       \/ PyEq(row[LOCATION], Str(ZeroLocation))

\* is_consistent raises ValueError when it parses a LOCATION that is not two
\* numbers separated by ", "
is_consistent_location_raises(row) ==
    /\ ~NoLocation(row)
    /\ notna(row[LOCATION])
    /\ LET p == LocationParts(row[LOCATION])
       IN  Len(p) # 2 \/ \E j \in DOMAIN p : ~IsFloatText(p[j])

is_consistent_location(row) ==
    IF NoLocation(row) THEN TRUE
    ELSE IF notna(row[LOCATION])
         THEN LET p == LocationParts(row[LOCATION])
              IN  PyEq(row[LATITUDE], float(p[1])) /\ PyEq(row[LONGITUDE], float(p[2]))
         ELSE TRUE

drop_location_column_if_consistent(cr) ==
    LET consistent == [i \in DOMAIN cr.rows |-> is_consistent_location(Row(cr, i))]
        inconsistent_rows == SelectIdx([i \in DOMAIN cr.rows |-> ~consistent[i]], 1)
    IN  IF \E i \in DOMAIN cr.rows : is_consistent_location_raises(Row(cr, i))
        THEN [err |-> "ValueError", crimes |-> cr, out |-> NoOut]
        ELSE IF inconsistent_rows # <<>>
        THEN [err |-> "none", crimes |-> cr,
              out |-> [msg   |-> "inconsistent",
                       rows  |-> [j \in DOMAIN inconsistent_rows |->
                                     <<Cell(cr, inconsistent_rows[j], LATITUDE),
                                       Cell(cr, inconsistent_rows[j], LONGITUDE),
                                       Cell(cr, inconsistent_rows[j], LOCATION)>>],
                       total |-> Len(inconsistent_rows)]]
        ELSE [err |-> "none", crimes |-> DropCol(cr, LOCATION),
              out |-> [msg |-> "deleted"]]

(***************************************************************************)
(* drop_date_column_if_consistent                                          *)
(***************************************************************************)
\* variant: the weekday is not compared
is_consistent_date_no_weekday(row) ==
    /\ PyEq(row[YEAR], ts_year(row[OCCURRED_ON_DATE]))
    /\ PyEq(row[MONTH], ts_month(row[OCCURRED_ON_DATE]))

\* The comparison of the two tuples: an element that is NaN equals nothing
\* (the YEAR and MONTH of a row are numbers taken from a numeric column, so
\* they are never the very object that NaT.year returns).
is_consistent_date(row) ==
    /\ PyEq(row[YEAR], ts_year(row[OCCURRED_ON_DATE]))
    /\ PyEq(row[MONTH], ts_month(row[OCCURRED_ON_DATE]))
    /\ PyEq(row[DAY_OF_WEEK], day_name(row[OCCURRED_ON_DATE]))

drop_date_column_if_consistent(cr) ==
    IF \A i \in DOMAIN cr.rows : is_consistent_date(Row(cr, i))
    THEN [err |-> "none", crimes |-> DropCol(cr, OCCURRED_ON_DATE),
          out |-> [msg |-> "deleted"]]
    ELSE [err |-> "none", crimes |-> cr, out |-> [msg |-> "retained"]]

(***************************************************************************)
(* correct_offense_description                                             *)
(***************************************************************************)
\* Series.str.replace('"', '').str.upper() on one value
normalize_name(c) ==
    IF c.k = "str" THEN Str(upper(replace_quotes(c.s))) ELSE NA

\* variant: drop_duplicates(subset=key, keep='last')
FirstWith_keep_last(t, key, v) ==
    CHOOSE i \in DOMAIN t.rows :
        /\ Cell(t, i, key) = v
        /\ \A j \in (i + 1)..Len(t.rows) : Cell(t, j, key) # v

\* the position of the row that drop_duplicates(subset=key) keeps for a key
\* value: the first row of the table with that value
FirstWith(t, key, v) ==
    CHOOSE i \in DOMAIN t.rows :
        /\ Cell(t, i, key) = v
        /\ \A j \in 1..(i - 1) : Cell(t, j, key) # v

HasKey(t, key, v) == \E i \in DOMAIN t.rows : Cell(t, i, key) = v

\* Series.map(d) for the dictionary
\*     t.drop_duplicates(subset=key).set_index(key)[val].to_dict()
\* applied to one value: NaN when the dictionary has no such key
MapFirst(t, key, val, v) ==
    IF HasKey(t, key, v) THEN Cell(t, FirstWith(t, key, v), val) ELSE NA

\* variant: the mapped series is used without fillna
fillna_omitted(c, other) == c

\* Series.fillna(other) on one value
fillna(c, other) == IF isna(c) THEN other ELSE c

correct_offense_description(cr, oc) ==
    LET oc72 == SetCol(oc, NAME,
                    [i \in DOMAIN oc.rows |-> normalize_name(Cell(oc, i, NAME))])
        desc == [i \in DOMAIN cr.rows |->
                    fillna(MapFirst(oc72, CODE, NAME, Cell(cr, i, OFFENSE_CODE)),
                           Cell(cr, i, OFFENSE_DESCRIPTION))]
    IN  IF ~HasStrAccessor(oc, NAME)
        THEN [err |-> "AttributeError", crimes |-> cr, offense_codes |-> oc]
        ELSE [err |-> "none", crimes |-> SetCol(cr, OFFENSE_DESCRIPTION, desc),
              offense_codes |-> oc72]

(***************************************************************************)
(* fill_missing_offense_data                                               *)
(***************************************************************************)
\* crimes.dropna(subset=[c])
DropNa(t, c) ==
    LET keep == SelectIdx([i \in DOMAIN t.rows |-> notna(Cell(t, i, c))], 1)
    IN  [t EXCEPT !.rows = [j \in DOMAIN keep |-> t.rows[keep[j]]]]

CountNa(t, c) == Cardinality({i \in DOMAIN t.rows : isna(Cell(t, i, c))})

fill_missing_offense_data(cr) ==
    LET groups == [i \in DOMAIN cr.rows |->
                      fillna(MapFirst(DropNa(cr, OFFENSE_CODE_GROUP), OFFENSE_CODE,
                                      OFFENSE_CODE_GROUP, Cell(cr, i, OFFENSE_CODE)),
                             Cell(cr, i, OFFENSE_CODE_GROUP))]
        descs  == [i \in DOMAIN cr.rows |->
                      fillna(MapFirst(DropNa(cr, OFFENSE_DESCRIPTION), OFFENSE_CODE,
                                      OFFENSE_DESCRIPTION, Cell(cr, i, OFFENSE_CODE)),
                             Cell(cr, i, OFFENSE_DESCRIPTION))]
        c90    == SetCol(SetCol(cr, OFFENSE_CODE_GROUP, groups),
                         OFFENSE_DESCRIPTION, descs)
    IN  [err |-> "none", crimes |-> c90,
         out |-> [msg |-> "filled",
                  missing_group |-> CountNa(c90, OFFENSE_CODE_GROUP),
                  missing_description |-> CountNa(c90, OFFENSE_DESCRIPTION)]]

(***************************************************************************)
(* fill_missing_location_data                                              *)
(***************************************************************************)
\* a < b for two numbers m / 10^e
NumLess(a, b) == a.m * Pow10(b.e) < b.m * Pow10(a.e)

KeyLess(k1, k2) ==
    \/ NumLess(k1[1], k2[1])
    \/ (k1[1] = k2[1] /\ NumLess(k1[2], k2[2]))

\* the keys of crimes.groupby(['LATITUDE', 'LONGITUDE']): a row with a NaN
\* key is in no group
GroupKeys(t) ==
    {<<Cell(t, i, LATITUDE), Cell(t, i, LONGITUDE)>> :
        i \in {j \in DOMAIN t.rows :
                  notna(Cell(t, j, LATITUDE)) /\ notna(Cell(t, j, LONGITUDE))}}

\* the keys in the order the loop visits them (groupby sorts its keys)
RECURSIVE SortedKeys(_)
SortedKeys(ks) ==
    IF ks = {} THEN <<>>
    ELSE LET least == CHOOSE a \in ks : \A b \in ks \ {a} : KeyLess(a, b)
         IN  <<least>> \o SortedKeys(ks \ {least})

\* the positions of the rows with LATITUDE == lat and LONGITUDE == lon
RowsAt(t, key) ==
    SelectIdx([i \in DOMAIN t.rows |->
                  PyEq(Cell(t, i, LATITUDE), key[1]) /\ PyEq(Cell(t, i, LONGITUDE), key[2])], 1)

\* variant: iloc[-1], the last non-null value
get_first_non_null_last(series) ==
    LET kept == SelectIdx([i \in DOMAIN series |-> notna(series[i])], 1)
    IN  IF kept # <<>> THEN series[kept[Len(kept)]] ELSE NA

\* series.dropna().iloc[0] if not series.dropna().empty else None
get_first_non_null(series) ==
    LET kept == SelectIdx([i \in DOMAIN series |-> notna(series[i])], 1)
    IN  IF kept # <<>> THEN series[kept[1]] ELSE NA

\* crimes.loc[idx, c] = v
SetAt(t, idx, c, v) ==
    [t EXCEPT !.rows = [i \in DOMAIN t.rows |->
                           IF i \in Range(idx)
                           THEN [t.rows[i] EXCEPT ![Pos(t, c)] = v]
                           ELSE t.rows[i]]]

\* the body of the loop for one group; grouped is the table the groups were
\* taken from, t the table being updated
FixGroup(grouped, t, key) ==
    LET members        == RowsAt(grouped, key)
        first_district == get_first_non_null(
                              [j \in DOMAIN members |-> Cell(grouped, members[j], DISTRICT)])
        first_street   == get_first_non_null(
                              [j \in DOMAIN members |-> Cell(grouped, members[j], STREET)])
        index_to_update == RowsAt(t, key)
    IN  SetAt(SetAt(t, index_to_update, DISTRICT, first_district),
              index_to_update, STREET, first_street)

RECURSIVE FixGroups(_, _, _)
FixGroups(grouped, t, keys) ==
    IF keys = <<>> THEN t
    ELSE FixGroups(grouped, FixGroup(grouped, t, Head(keys)), Tail(keys))

fill_missing_location_data(cr) ==
    [err |-> "none",
     crimes |-> FixGroups(cr, cr, SortedKeys(GroupKeys(cr))),
     out |-> [msg |-> "updated"]]

(***************************************************************************)
(* The calls.  Each function is applied to tables drawn from a small set;  *)
(* old keeps the tables as they were when the call began.                  *)
(***************************************************************************)
\* the tables with the given columns and 1..max rows drawn from rowset
TablesUpTo(cols, rowset, max) ==
    {[columns |-> cols, rows |-> r] :
        r \in UNION {[1..n -> rowset] : n \in 1..max}}

Tables(cols, rowset) == TablesUpTo(cols, rowset, MaxRows)

NoTable == [columns |-> <<>>, rows |-> <<>>]

NoFiles == [crimes |-> "absent", offense_codes |-> "absent"]

Returned(r) == IF r.err = "none" THEN "returned" ELSE "raised"

InitCall(cr, oc) ==
    /\ pc = "call"
    /\ crimes = cr
    /\ offense_codes = oc
    /\ old = [crimes |-> cr, offense_codes |-> oc]
    /\ err = "none"
    /\ out = NoOut
    /\ files = NoFiles

(***************************************************************************)
(* standardize_columns, called once and then again on what it returned.    *)
(***************************************************************************)
RawColumnSets ==
    { <<<<"L", "a", "t">>, <<"L", "o", "n", "g">>, <<"o", "c", "c", "u", "r", "r", "e", "d", "_", "o", "n", "_", "d", "a", "t", "e">>, <<"S", "t", "r", "e", "e", "t">>>>,
      <<LATITUDE, LONGITUDE, OCCURRED_ON_DATE>>,
      <<<<"L", "a", "t">>, <<"o", "c", "c", "u", "r", "r", "e", "d", "_", "o", "n", "_", "d", "a", "t", "e">>, <<"S", "t", "r", "e", "e", "t">>>> }

RawLatitudes == {Num(42, 0), Str(<<"4", "2", ".", "0", "0">>), Str(<<"x">>), NA}

RawDates == {Str(<<"2", "0", "1", "8", "-", "0", "9", "-", "0", "2">>), Str(<<"2", "0", "1", "8", "-", "1", "3", "-", "0", "1">>), NA}

RawStreets == {Str(<<"a", "U+00DF">>), Str(<<"B">>), NA}

RawRows(cols) ==
    IF Len(cols) = 4
    THEN {<<la, Num(-711, 1), d, st>> :
             la \in RawLatitudes, d \in RawDates, st \in RawStreets}
    ELSE IF cols[2] = LONGITUDE
         THEN {<<la, Num(-711, 1), d>> : la \in RawLatitudes, d \in RawDates}
         ELSE {<<la, d, st>> : la \in {Num(42, 0)}, d \in RawDates, st \in RawStreets}

RawCodes ==
    [columns |-> <<<<"c", "o", "d", "e">>, <<"N", "a", "m", "e">>>>,
     rows    |-> << <<IntCell(100), Str(<<"\"", "l", "a", "\"">>)>> >>]

InitStd ==
    \E cols \in RawColumnSets :
        \E cr \in Tables(cols, RawRows(cols)) : InitCall(cr, RawCodes)

CallStandardize ==
    /\ pc = "call"
    /\ LET r == standardize_columns(crimes, offense_codes)
       IN  /\ crimes' = r.crimes
           /\ offense_codes' = r.offense_codes
           /\ err' = r.err
           /\ pc' = Returned(r)
    /\ UNCHANGED <<old, out, files>>

CallStandardizeAgain ==
    /\ pc = "returned"
    /\ old' = [crimes |-> crimes, offense_codes |-> offense_codes]
    /\ LET r == standardize_columns(crimes, offense_codes)
       IN  /\ crimes' = r.crimes
           /\ offense_codes' = r.offense_codes
           /\ err' = r.err
           /\ pc' = IF r.err = "none" THEN "returned2" ELSE "raised2"
    /\ UNCHANGED <<out, files>>

NextStd == CallStandardize \/ CallStandardizeAgain

SpecStd == InitStd /\ [][NextStd]_vars

(***************************************************************************)
(* drop_location_column_if_consistent                                      *)
(***************************************************************************)
Coordinates ==
    { <<NA, NA>>, <<NA, Num(-71, 0)>>, <<Num(42, 0), NA>>, <<IntCell(0), IntCell(0)>>,
      <<Num(42, 0), Num(-71, 0)>>, <<Num(42, 0), Num(-711, 1)>> }

Locations ==
    { NA, Str(ZeroLocation),
      Str(<<"(", "4", "2", ".", "0", ",", " ", "-", "7", "1", ".", "0", ")">>),
      Str(<<"(", "4", "2", ".", "0", "0", ",", " ", "-", "7", "1", ".", "0", ")">>),
      Str(<<"x">>) }

LocRows == {<<c[1], c[2], loc, Str(<<"A">>)>> : c \in Coordinates, loc \in Locations}

InitLoc ==
    \E cr \in Tables(<<LATITUDE, LONGITUDE, LOCATION, STREET>>, LocRows) :
        InitCall(cr, NoTable)

CallDropLocation ==
    /\ pc = "call"
    /\ LET r == drop_location_column_if_consistent(crimes)
       IN  /\ crimes' = r.crimes
           /\ err' = r.err
           /\ out' = r.out
           /\ pc' = Returned(r)
    /\ UNCHANGED <<offense_codes, old, files>>

NextLoc == CallDropLocation

SpecLoc == InitLoc /\ [][NextLoc]_vars

(***************************************************************************)
(* drop_date_column_if_consistent                                          *)
(***************************************************************************)
Sunday == DayNames[1]

Monday == DayNames[2]

DateRows ==
    {<<t, y, m, w>> :
        t \in {Ts(2018, 9, 2), Ts(2018, 9, 3), NA},
        y \in {IntCell(2018), NA},
        m \in {IntCell(9), NA},
        w \in {Str(Sunday), Str(Monday), NA}}

InitDate ==
    \E cr \in Tables(<<OCCURRED_ON_DATE, YEAR, MONTH, DAY_OF_WEEK>>, DateRows) :
        InitCall(cr, NoTable)

CallDropDate ==
    /\ pc = "call"
    /\ LET r == drop_date_column_if_consistent(crimes)
       IN  /\ crimes' = r.crimes
           /\ err' = r.err
           /\ out' = r.out
           /\ pc' = Returned(r)
    /\ UNCHANGED <<offense_codes, old, files>>

NextDate == CallDropDate

SpecDate == InitDate /\ [][NextDate]_vars

(***************************************************************************)
(* correct_offense_description                                             *)
(***************************************************************************)
IncidentRows ==
    {<<c, d>> : c \in {IntCell(100), IntCell(200), IntCell(999)},
                d \in {Str(<<"O", "L", "D">>), NA}}

CodeRows ==
    {<<c, n>> : c \in {IntCell(100), IntCell(200)},
                n \in {Str(<<"\"", "l", "a", "\"">>), Str(<<"B">>), NA}}

InitCorrect ==
    \E cr \in Tables(<<OFFENSE_CODE, OFFENSE_DESCRIPTION>>, IncidentRows) :
        \E oc \in Tables(<<CODE, NAME>>, CodeRows) : InitCall(cr, oc)

CallCorrect ==
    /\ pc = "call"
    /\ LET r == correct_offense_description(crimes, offense_codes)
       IN  /\ crimes' = r.crimes
           /\ offense_codes' = r.offense_codes
           /\ err' = r.err
           /\ pc' = Returned(r)
    /\ UNCHANGED <<old, out, files>>

NextCorrect == CallCorrect

SpecCorrect == InitCorrect /\ [][NextCorrect]_vars

(***************************************************************************)
(* fill_missing_offense_data                                               *)
(***************************************************************************)
OffenseRows ==
    {<<c, g, d>> : c \in {IntCell(1), IntCell(2)},
                   g \in {Str(<<"A">>), Str(<<"B">>), NA},
                   d \in {Str(<<"X">>), Str(<<"Y">>), NA}}

InitFillOffense ==
    \E cr \in Tables(<<OFFENSE_CODE, OFFENSE_CODE_GROUP, OFFENSE_DESCRIPTION>>,
                     OffenseRows) :
        InitCall(cr, NoTable)

CallFillOffense ==
    /\ pc = "call"
    /\ LET r == fill_missing_offense_data(crimes)
       IN  /\ crimes' = r.crimes
           /\ err' = r.err
           /\ out' = r.out
           /\ pc' = Returned(r)
    /\ UNCHANGED <<offense_codes, old, files>>

NextFillOffense == CallFillOffense

SpecFillOffense == InitFillOffense /\ [][NextFillOffense]_vars

(***************************************************************************)
(* fill_missing_location_data                                              *)
(***************************************************************************)
PlaceRows ==
    {<<c[1], c[2], d, st>> :
        c \in {<<Num(42, 0), Num(-71, 0)>>, <<Num(42, 0), Num(-711, 1)>>,
               <<NA, Num(-71, 0)>>},
        d \in {Str(<<"A">>), Str(<<"B">>), NA},
        st \in {Str(<<"S">>), NA}}

InitFillLocation ==
    \E cr \in TablesUpTo(<<LATITUDE, LONGITUDE, DISTRICT, STREET>>, PlaceRows,
                         MaxPlaceRows) :
        InitCall(cr, NoTable)

CallFillLocation ==
    /\ pc = "call"
    /\ LET r == fill_missing_location_data(crimes)
       IN  /\ crimes' = r.crimes
           /\ err' = r.err
           /\ out' = r.out
           /\ pc' = Returned(r)
    /\ UNCHANGED <<offense_codes, old, files>>

NextFillLocation == CallFillLocation

SpecFillLocation == InitFillLocation /\ [][NextFillLocation]_vars

(***************************************************************************)
(* main.  old holds the content of the two input files; a read or a write  *)
(* may fail for a reason outside the program (file not found, no           *)
(* permission, disk full), and a write fails with UnicodeEncodeError when  *)
(* the table holds a character that ISO-8859-1 cannot encode.              *)
(***************************************************************************)
FileRows ==
    { <<IntCell(100), Str(<<"o", "l", "d">>), Str(<<"2", "0", "1", "8", "-", "0", "9", "-", "0", "2">>),
        Num(42, 0), Num(-71, 0), Str(<<"(", "4", "2", ".", "0", ",", " ", "-", "7", "1", ".", "0", ")">>)>>,
      <<IntCell(999), Str(<<"o", "l", "d">>), Str(<<"2", "0", "1", "8", "-", "1", "3", "-", "0", "1">>),
        Num(42, 0), Num(-711, 1), Str(<<"(", "4", "2", ".", "0", ",", " ", "-", "7", "1", ".", "0", ")">>)>>,
      <<IntCell(200), NA, Str(<<"2", "0", "1", "8", "-", "0", "9", "-", "0", "2">>),
        IntCell(0), IntCell(0), NA>>,
      <<IntCell(100), Str(<<"o", "l", "d">>), Str(<<"2", "0", "1", "8", "-", "0", "9", "-", "0", "2">>),
        Str(<<"x">>), Num(-71, 0), NA>>,
      <<IntCell(100), Str(<<"o", "l", "d">>), Str(<<"2", "0", "1", "8", "-", "0", "9", "-", "0", "2">>),
        Num(42, 0), Num(-71, 0), Str(<<"x">>)>> }

FileColumns ==
    <<OFFENSE_CODE, OFFENSE_DESCRIPTION, OCCURRED_ON_DATE,
      <<"L", "a", "t">>, <<"L", "o", "n", "g">>, <<"L", "o", "c", "a", "t", "i", "o", "n">>>>

FileCodeRows ==
    { <<IntCell(100), Str(<<"\"", "l", "a", "\"">>)>>,
      <<IntCell(200), Str(<<"U+00FF">>)>>,
      <<IntCell(300), Str(<<"U+00FF">>)>> }

\* to_csv(..., encoding="ISO-8859-1") can encode every character of the table
Latin1(t) ==
    \A i \in DOMAIN t.rows : \A p \in DOMAIN t.rows[i] :
        t.rows[i][p].k = "str" => "U+0178" \notin Range(t.rows[i][p].s)

Init ==
    /\ pc = "read_crimes"
    /\ crimes = NoTable
    /\ offense_codes = NoTable
    /\ \E cr \in Tables(FileColumns, FileRows) :
          \E oc \in Tables(<<CODE, <<"N", "a", "m", "e">>>>, FileCodeRows) :
              old = [crimes |-> cr, offense_codes |-> oc]
    /\ err = "none"
    /\ out = NoOut
    /\ files = NoFiles

Abort(e) ==
    /\ pc' = "aborted"
    /\ err' = e

\* line 136
ReadCrimes ==
    /\ pc = "read_crimes"
    /\ \/ /\ crimes' = old.crimes
          /\ pc' = "read_codes"
          /\ UNCHANGED err
       \/ /\ Abort("FileNotFoundError")
          /\ UNCHANGED crimes
    /\ UNCHANGED <<offense_codes, old, out, files>>

\* line 137
ReadCodes ==
    /\ pc = "read_codes"
    /\ \/ /\ offense_codes' = old.offense_codes
          /\ pc' = "standardize"
          /\ UNCHANGED err
       \/ /\ Abort("FileNotFoundError")
          /\ UNCHANGED offense_codes
    /\ UNCHANGED <<crimes, old, out, files>>

\* line 139
Standardize ==
    /\ pc = "standardize"
    /\ LET r == standardize_columns(crimes, offense_codes)
       IN  /\ crimes' = r.crimes
           /\ offense_codes' = r.offense_codes
           /\ err' = r.err
           /\ pc' = IF r.err = "none" THEN "drop_location" ELSE "aborted"
    /\ UNCHANGED <<old, out, files>>

\* line 140
DropLocation ==
    /\ pc = "drop_location"
    /\ LET r == drop_location_column_if_consistent(crimes)
       IN  /\ crimes' = r.crimes
           /\ err' = r.err
           /\ out' = r.out
           /\ pc' = IF r.err = "none" THEN "split_date" ELSE "aborted"
    /\ UNCHANGED <<offense_codes, old, files>>

\* lines 142-145
SplitDate ==
    /\ pc = "split_date"
    /\ LET date(i) == Cell(crimes, i, OCCURRED_ON_DATE)
           c142 == SetCol(crimes, YEAR, [i \in DOMAIN crimes.rows |-> ts_year(date(i))])
           c143 == SetCol(c142, MONTH, [i \in DOMAIN crimes.rows |-> ts_month(date(i))])
           c144 == SetCol(c143, DAY_OF_WEEK, [i \in DOMAIN crimes.rows |-> day_name(date(i))])
           c145 == SetCol(c144, TIME, [i \in DOMAIN crimes.rows |-> strftime_hm(date(i))])
       IN  crimes' = c145
    /\ pc' = "drop_date"
    /\ UNCHANGED <<offense_codes, old, err, out, files>>

\* line 147
DropDate ==
    /\ pc = "drop_date"
    /\ LET r == drop_date_column_if_consistent(crimes)
       IN  /\ crimes' = r.crimes
           /\ out' = r.out
    /\ pc' = "correct"
    /\ UNCHANGED <<offense_codes, old, err, files>>

\* line 148
Correct ==
    /\ pc = "correct"
    /\ LET r == correct_offense_description(crimes, offense_codes)
       IN  /\ crimes' = r.crimes
           /\ offense_codes' = r.offense_codes
           /\ err' = r.err
           /\ pc' = IF r.err = "none" THEN "save_crimes" ELSE "aborted"
    /\ UNCHANGED <<old, out, files>>

\* line 154
SaveCrimes ==
    /\ pc = "save_crimes"
    /\ \/ /\ Latin1(crimes)
          /\ files' = [files EXCEPT !.crimes = "written"]
          /\ pc' = "save_codes"
          /\ UNCHANGED err
       \/ /\ ~Latin1(crimes)
          /\ files' = [files EXCEPT !.crimes = "partial"]
          /\ Abort("UnicodeEncodeError")
       \/ /\ Abort("OSError")
          /\ UNCHANGED files
    /\ UNCHANGED <<crimes, offense_codes, old, out>>

\* line 155
SaveCodes ==
    /\ pc = "save_codes"
    /\ \/ /\ Latin1(offense_codes)
          /\ files' = [files EXCEPT !.offense_codes = "written"]
          /\ pc' = "done"
          /\ UNCHANGED err
       \/ /\ ~Latin1(offense_codes)
          /\ files' = [files EXCEPT !.offense_codes = "partial"]
          /\ Abort("UnicodeEncodeError")
       \/ /\ Abort("OSError")
          /\ UNCHANGED files
    /\ UNCHANGED <<crimes, offense_codes, old, out>>

Next ==
    \/ ReadCrimes
    \/ ReadCodes
    \/ Standardize
    \/ DropLocation
    \/ SplitDate
    \/ DropDate
    \/ Correct
    \/ SaveCrimes
    \/ SaveCodes

Spec == Init /\ [][Next]_vars

(***************************************************************************)
(*                              The claims                                 *)
(***************************************************************************)
Min(S) == CHOOSE a \in S : \A b \in S : a <= b

\* the rows of the code table, as it was given, that carry the code
EntriesOf(code) ==
    {j \in DOMAIN old.offense_codes.rows : Cell(old.offense_codes, j, CODE) = code}

\* quote-stripped and upper-cased NAME of the first row that carries the code
FirstNameOf(code) ==
    normalize_name(Cell(old.offense_codes, Min(EntriesOf(code)), NAME))

Description(t, i) == Cell(t, i, OFFENSE_DESCRIPTION)

(***************************************************************************)
(* C1 as stated: after correct_offense_description, a record whose code    *)
(* appears in the code table has the normalized NAME of that code as its   *)
(* description, also when that NAME is missing; a record whose code does   *)
(* not appear keeps its description.                                       *)
(***************************************************************************)
C1_AsStated ==
    pc = "returned" =>
        \A i \in DOMAIN crimes.rows :
            LET code == Cell(old.crimes, i, OFFENSE_CODE)
            IN  IF EntriesOf(code) # {}
                THEN Description(crimes, i) = FirstNameOf(code)
                ELSE Description(crimes, i) = Description(old.crimes, i)

(***************************************************************************)
(* C1 as amended: after correct_offense_description returns, a record      *)
(* whose code appears in the code table with a NAME that is not missing    *)
(* (the NAME of the first row with that code) has that normalized NAME as  *)
(* its description; a record whose code does not appear, or appears with a *)
(* missing NAME, keeps the description it had before the call.             *)
(***************************************************************************)
C1_DescriptionFromTable ==
    pc = "returned" =>
        \A i \in DOMAIN crimes.rows :
            LET code == Cell(old.crimes, i, OFFENSE_CODE)
            IN  IF EntriesOf(code) # {} /\ notna(FirstNameOf(code))
                THEN Description(crimes, i) = FirstNameOf(code)
                ELSE Description(crimes, i) = Description(old.crimes, i)

\* one record took a name from the table, another kept its description
\* because the entry of its code has no NAME
C1_Witness ==
    /\ pc = "returned"
    /\ \E i \in DOMAIN crimes.rows :
          /\ EntriesOf(Cell(old.crimes, i, OFFENSE_CODE)) # {}
          /\ notna(FirstNameOf(Cell(old.crimes, i, OFFENSE_CODE)))
          /\ Description(crimes, i) # Description(old.crimes, i)
    /\ \E i \in DOMAIN crimes.rows :
          /\ EntriesOf(Cell(old.crimes, i, OFFENSE_CODE)) # {}
          /\ isna(FirstNameOf(Cell(old.crimes, i, OFFENSE_CODE)))
          /\ notna(Description(old.crimes, i))
          /\ Description(crimes, i) = Description(old.crimes, i)

(***************************************************************************)
(* C9 as stated: when several rows of the code table carry the same CODE,  *)
(* every record with that code receives the normalized NAME of the first   *)
(* such row; the code table keeps all its rows and only its NAME column is *)
(* changed, to its normalized form.                                        *)
(***************************************************************************)
CodeTableKept ==
    /\ offense_codes.columns = old.offense_codes.columns
    /\ Len(offense_codes.rows) = Len(old.offense_codes.rows)
    /\ \A j \in DOMAIN old.offense_codes.rows :
          /\ Cell(offense_codes, j, CODE) = Cell(old.offense_codes, j, CODE)
          /\ Cell(offense_codes, j, NAME) =
                 normalize_name(Cell(old.offense_codes, j, NAME))

C9_AsStated ==
    pc = "returned" =>
        /\ \A i \in DOMAIN crimes.rows :
              Cardinality(EntriesOf(Cell(old.crimes, i, OFFENSE_CODE))) >= 2 =>
                  Description(crimes, i) = FirstNameOf(Cell(old.crimes, i, OFFENSE_CODE))
        /\ CodeTableKept

(***************************************************************************)
(* C9 as amended: when several rows of the code table carry the same CODE, *)
(* the mapping uses the NAME of the first such row: every record with that *)
(* code receives the first row's normalized NAME when that NAME is not     *)
(* missing, and keeps its own description when it is missing (the NAME of  *)
(* a later row is never used); the code table keeps all its rows and only  *)
(* its NAME column is changed, to its normalized form.                     *)
(***************************************************************************)
C9_FirstOccurrenceWins ==
    pc = "returned" =>
        /\ \A i \in DOMAIN crimes.rows :
              LET code == Cell(old.crimes, i, OFFENSE_CODE)
              IN  Cardinality(EntriesOf(code)) >= 2 =>
                      Description(crimes, i) =
                          IF notna(FirstNameOf(code)) THEN FirstNameOf(code)
                          ELSE Description(old.crimes, i)
        /\ CodeTableKept

\* a code with two rows of different names: the record has the first name
C9_Witness ==
    /\ pc = "returned"
    /\ Len(offense_codes.rows) = 2
    /\ Cell(old.offense_codes, 1, CODE) = Cell(old.offense_codes, 2, CODE)
    /\ notna(Cell(offense_codes, 1, NAME))
    /\ notna(Cell(offense_codes, 2, NAME))
    /\ Cell(offense_codes, 1, NAME) # Cell(offense_codes, 2, NAME)
    /\ Cell(offense_codes, 1, NAME) # Cell(old.offense_codes, 1, NAME)
    /\ \E i \in DOMAIN crimes.rows :
          /\ Cell(crimes, i, OFFENSE_CODE) = Cell(offense_codes, 1, CODE)
          /\ Description(crimes, i) = Cell(offense_codes, 1, NAME)

(***************************************************************************)
(* C2: if drop_location_column_if_consistent drops LOCATION, every record  *)
(* of the input satisfied agreement rule A, B or C, where rule A needs     *)
(* latitude and longitude BOTH missing or BOTH zero.                       *)
(***************************************************************************)
RuleA(row) ==
    /\ \/ (isna(row[LATITUDE]) /\ isna(row[LONGITUDE]))
       \/ (row[LATITUDE] = IntCell(0) /\ row[LONGITUDE] = IntCell(0))
    /\ (isna(row[LOCATION]) \/ row[LOCATION] = Str(ZeroLocation))

RuleB(row) ==
    /\ notna(row[LOCATION])
    /\ LET p == LocationParts(row[LOCATION])
       IN  /\ Len(p) = 2
           /\ IsFloatText(p[1]) /\ IsFloatText(p[2])
           /\ row[LATITUDE] = float(p[1])
           /\ row[LONGITUDE] = float(p[2])

RuleC(row) == isna(row[LOCATION])

C2_DroppedOnlyIfRulesHold ==
    (pc = "returned" /\ ~HasCol(crimes, LOCATION)) =>
        \A i \in DOMAIN old.crimes.rows :
            \/ RuleA(Row(old.crimes, i))
            \/ RuleB(Row(old.crimes, i))
            \/ RuleC(Row(old.crimes, i))

(***************************************************************************)
(* C3: drop_location_column_if_consistent drops LOCATION if and only if no *)
(* record is judged inconsistent; when some record is, LOCATION is kept,   *)
(* the table is left as it was and the reported total is the number of     *)
(* inconsistent records.  (Stated of the calls that return: a LOCATION     *)
(* that cannot be parsed ends the call with ValueError.)                   *)
(***************************************************************************)
JudgedInconsistent ==
    {i \in DOMAIN old.crimes.rows : ~is_consistent_location(Row(old.crimes, i))}

C3_DropIffAllConsistent ==
    pc = "returned" =>
        /\ ~HasCol(crimes, LOCATION) <=> JudgedInconsistent = {}
        /\ JudgedInconsistent = {} =>
              /\ Len(crimes.columns) = Len(old.crimes.columns) - 1
              /\ \A c \in Range(crimes.columns) : \A i \in DOMAIN crimes.rows :
                    Cell(crimes, i, c) = Cell(old.crimes, i, c)
        /\ JudgedInconsistent # {} =>
              /\ crimes = old.crimes
              /\ out.msg = "inconsistent"
              /\ out.total = Cardinality(JudgedInconsistent)

\* the scenario of the specification: "(42.0, -71.0)" beside (42.0, -71.1)
C3_Witness ==
    /\ pc = "returned"
    /\ Len(crimes.rows) = 1
    /\ Cell(crimes, 1, LATITUDE) = Num(42, 0)
    /\ Cell(crimes, 1, LONGITUDE) = Num(-711, 1)
    /\ HasCol(crimes, LOCATION)
    /\ Cell(crimes, 1, LOCATION) = Str(<<"(", "4", "2", ".", "0", ",", " ", "-", "7", "1", ".", "0", ")">>)
    /\ out.msg = "inconsistent"
    /\ out.total = 1

(***************************************************************************)
(* C4: drop_date_column_if_consistent drops OCCURRED_ON_DATE if and only   *)
(* if in every record (YEAR, MONTH, DAY_OF_WEEK) is the year, the month    *)
(* and the English weekday name of OCCURRED_ON_DATE; a record with a       *)
(* missing timestamp disagrees; when some record disagrees the column is   *)
(* kept and the table is left as it was.                                   *)
(***************************************************************************)
Agrees(row) ==
    /\ row[OCCURRED_ON_DATE].k = "ts"
    /\ row[YEAR] = IntCell(row[OCCURRED_ON_DATE].y)
    /\ row[MONTH] = IntCell(row[OCCURRED_ON_DATE].mo)
    /\ row[DAY_OF_WEEK] =
           Str(DayNames[Weekday(row[OCCURRED_ON_DATE].y, row[OCCURRED_ON_DATE].mo,
                                row[OCCURRED_ON_DATE].d) + 1])

C4_DropIffAllAgree ==
    pc = "returned" =>
        /\ ~HasCol(crimes, OCCURRED_ON_DATE) <=>
               \A i \in DOMAIN old.crimes.rows : Agrees(Row(old.crimes, i))
        /\ (\E i \in DOMAIN old.crimes.rows : ~Agrees(Row(old.crimes, i))) =>
               crimes = old.crimes

\* one record agrees, the other has no timestamp (and no year, no month, no
\* weekday): the column is kept
C4_Witness ==
    /\ pc = "returned"
    /\ HasCol(crimes, OCCURRED_ON_DATE)
    /\ Len(crimes.rows) = 2
    /\ Agrees(Row(old.crimes, 1))
    /\ \A c \in Range(crimes.columns) : isna(Cell(old.crimes, 2, c))

(***************************************************************************)
(* C5: a run of main that fails at any step leaves no output file written, *)
(* also when the second save fails after the first succeeded.              *)
(***************************************************************************)
C5_NoOutputWhenAborted ==
    pc = "aborted" =>
        /\ files.crimes # "written"
        /\ files.offense_codes # "written"

(***************************************************************************)
(* C6: in standardize_columns a coordinate that is non-numeric text and an *)
(* OCCURRED_ON_DATE that is unparseable text each become the missing-value *)
(* marker, and the call completes normally.                                *)
(***************************************************************************)
C6_MalformedBecomesMissing ==
    pc \in {"returned", "raised"} =>
        /\ err # "ValueError"
        /\ pc = "returned" =>
              \A i \in DOMAIN crimes.rows : \A p \in DOMAIN crimes.columns :
                  LET before == old.crimes.rows[i][p]
                  IN  /\ ( /\ crimes.columns[p] \in {LATITUDE, LONGITUDE}
                           /\ before.k = "str" /\ ~IsFloatText(before.s) )
                         => isna(crimes.rows[i][p])
                      /\ ( /\ crimes.columns[p] = OCCURRED_ON_DATE
                           /\ before.k = "str" /\ ~IsDateText(before.s) )
                         => isna(crimes.rows[i][p])

(***************************************************************************)
(* C7: fill_missing_offense_data changes only missing values: a record     *)
(* whose OFFENSE_CODE_GROUP (OFFENSE_DESCRIPTION) was not missing keeps    *)
(* it; a record whose field was missing receives the first-seen            *)
(* non-missing value for its code, or stays missing when there is none.    *)
(***************************************************************************)
\* the first non-missing value of column c among the records with the code
FirstSeen(code, c) ==
    LET having == {j \in DOMAIN old.crimes.rows :
                      /\ Cell(old.crimes, j, OFFENSE_CODE) = code
                      /\ notna(Cell(old.crimes, j, c))}
    IN  IF having = {} THEN NA ELSE Cell(old.crimes, Min(having), c)

C7_OnlyMissingFilled ==
    pc = "returned" =>
        \A i \in DOMAIN crimes.rows :
            \A c \in {OFFENSE_CODE_GROUP, OFFENSE_DESCRIPTION} :
                IF notna(Cell(old.crimes, i, c))
                THEN Cell(crimes, i, c) = Cell(old.crimes, i, c)
                ELSE Cell(crimes, i, c) =
                         FirstSeen(Cell(old.crimes, i, OFFENSE_CODE), c)

(***************************************************************************)
(* C8: after fill_missing_location_data every record of a group of records *)
(* with identical non-missing (LATITUDE, LONGITUDE) has the first          *)
(* non-missing DISTRICT and the first non-missing STREET of the group in   *)
(* row order (missing when the group has none), whatever it had before;    *)
(* records with other coordinates have no influence, and a record with a   *)
(* missing coordinate is left unchanged.                                   *)
(***************************************************************************)
HasPlace(t, i) == notna(Cell(t, i, LATITUDE)) /\ notna(Cell(t, i, LONGITUDE))

\* the records that share the coordinates of record i
GroupOf(i) ==
    {j \in DOMAIN old.crimes.rows :
        /\ Cell(old.crimes, j, LATITUDE) = Cell(old.crimes, i, LATITUDE)
        /\ Cell(old.crimes, j, LONGITUDE) = Cell(old.crimes, i, LONGITUDE)}

FirstOfGroup(i, c) ==
    LET having == {j \in GroupOf(i) : notna(Cell(old.crimes, j, c))}
    IN  IF having = {} THEN NA ELSE Cell(old.crimes, Min(having), c)

C8_GroupConsensus ==
    pc = "returned" =>
        /\ crimes.columns = old.crimes.columns
        /\ Len(crimes.rows) = Len(old.crimes.rows)
        /\ \A i \in DOMAIN old.crimes.rows :
              IF HasPlace(old.crimes, i)
              THEN /\ Cell(crimes, i, DISTRICT) = FirstOfGroup(i, DISTRICT)
                   /\ Cell(crimes, i, STREET) = FirstOfGroup(i, STREET)
                   /\ Cell(crimes, i, LATITUDE) = Cell(old.crimes, i, LATITUDE)
                   /\ Cell(crimes, i, LONGITUDE) = Cell(old.crimes, i, LONGITUDE)
              ELSE crimes.rows[i] = old.crimes.rows[i]

\* three records: two share their coordinates, the first of them without a
\* district and the second with one that both end with; the third is
\* elsewhere, has another district and keeps it
C8_Witness ==
    /\ pc = "returned"
    /\ Len(crimes.rows) = 3
    /\ GroupOf(1) = {1, 2}
    /\ HasPlace(old.crimes, 1)
    /\ HasPlace(old.crimes, 3)
    /\ isna(Cell(old.crimes, 1, DISTRICT))
    /\ notna(Cell(old.crimes, 2, DISTRICT))
    /\ Cell(crimes, 1, DISTRICT) = Cell(old.crimes, 2, DISTRICT)
    /\ Cell(crimes, 2, DISTRICT) = Cell(old.crimes, 2, DISTRICT)
    /\ notna(Cell(old.crimes, 3, DISTRICT))
    /\ Cell(old.crimes, 3, DISTRICT) # Cell(old.crimes, 2, DISTRICT)
    /\ Cell(crimes, 3, DISTRICT) = Cell(old.crimes, 3, DISTRICT)

(***************************************************************************)
(* C10: standardize_columns is idempotent: applied to the two tables it    *)
(* returned, it returns and leaves the same two tables (column names and   *)
(* every value).                                                           *)
(***************************************************************************)
C10_Idempotent ==
    /\ pc # "raised2"
    /\ pc = "returned2" =>
          /\ crimes = old.crimes
          /\ offense_codes = old.offense_codes

\* the second call has returned on tables the first call had to convert: a
\* renamed coordinate column, a number parsed from text, a parsed timestamp,
\* an unparseable one, and a street whose upper case is longer than its text
C10_Witness ==
    /\ pc = "returned2"
    /\ crimes.columns = <<LATITUDE, LONGITUDE, OCCURRED_ON_DATE, STREET>>
    /\ Len(crimes.rows) = 2
    /\ crimes.rows[1] = <<Num(42, 0), Num(-711, 1), Ts(2018, 9, 2), Str(<<"A", "S", "S">>)>>
    /\ isna(crimes.rows[2][3])
    /\ offense_codes.columns = <<CODE, NAME>>

=============================================================================
